---- MODULE Spec2Model ----
(***************************************************************************)
(* The recursive descent parser generated by impl_rdp! (src/parsers/rdp.rs) *)
(* behind the Parser trait (src/parser.rs): the Rdp struct's fields are the *)
(* variables, each trait method is an operator on a record of those fields  *)
(* and an action that applies it.  A rule body handed to try is a callback: *)
(* the frames of the try calls in progress are the stack, and the body is   *)
(* whatever sequence of parser operations happens between TryBegin and      *)
(* TryEnd, returning either result.                                         *)
(***************************************************************************)
EXTENDS Integers, Sequences, FiniteSets

VARIABLES
    input,        \* Rdp.input: the text, a sequence of characters
    grammar,      \* the operator levels of the grammar the climb closure reads
    pos,          \* Rdp.input.pos()
    queue,        \* Rdp.queue: Vec<Token<Rule>>
    failures,     \* Rdp.failures: Vec<Rule>
    fail_pos,     \* Rdp.fail_pos
    atomic,       \* Rdp.atomic
    comment,      \* Rdp.comment
    eoi_matched,  \* Rdp.eoi_matched
    stack,        \* the try calls in progress, innermost last
    hmax,         \* history: the largest pos passed to track since reset, or -1
    htags,        \* history: the tags passed to track at hmax
    last          \* the last call that returned: its name, arguments, result

vars == <<input, grammar, pos, queue, failures, fail_pos, atomic, comment,
          eoi_matched, stack, hmax, htags, last>>

----------------------------------------------------------------------------
(* Bounds of the model *)

MaxQueue == 2   \* tokens a rule pushes directly are capped at this queue length
MaxFail  == 2   \* explicit track calls are capped at this length of failures
MaxDepth == 1   \* nested try calls in progress
MaxParens == 6  \* the length of the strings of parentheses
MaxOps   == 3   \* operators in an operator chain

----------------------------------------------------------------------------
(* Option<T> *)

None == <<>>
Some(x) == <<x>>
IsSome(o) == o # <<>>
Unwrap(o) == o[1]

Max(a, b) == IF a >= b THEN a ELSE b

(* Rule: the derived Ord of the enum is its declaration order, any and eoi
   first. *)
RuleOrd ==
    [r \in {"any", "eoi", "primary", "addition", "multiplication", "power",
            "paren"} |->
        CASE r = "any" -> 0
          [] r = "eoi" -> 1
          [] r = "primary" -> 2
          [] r = "addition" -> 3
          [] r = "multiplication" -> 4
          [] r = "power" -> 5
          [] r = "paren" -> 6]

Rule == DOMAIN RuleOrd

Token(rule, start, end_) == [rule |-> rule, start |-> start, end |-> end_]

----------------------------------------------------------------------------
(* Vec *)

\* Vec::truncate: keeps the first len elements, no effect when len >= self.len()
Truncate(v, len) == IF len >= Len(v) THEN v ELSE SubSeq(v, 1, len)

\* Vec::insert at a 0-based index, shifting the elements after it
Insert(v, index, x) == SubSeq(v, 1, index) \o <<x>> \o SubSeq(v, index + 1, Len(v))

RECURSIVE SortInto(_, _)
\* x placed into the sorted vector v, after the elements not greater than it
SortInto(v, x) ==
    IF v = <<>> THEN <<x>>
    ELSE IF RuleOrd[x] < RuleOrd[Head(v)] THEN <<x>> \o v
    ELSE <<Head(v)>> \o SortInto(Tail(v), x)

RECURSIVE Sort(_)
\* Vec::sort
Sort(v) == IF v = <<>> THEN <<>> ELSE SortInto(Sort(SubSeq(v, 1, Len(v) - 1)), v[Len(v)])

RECURSIVE Dedup(_)
\* Vec::dedup: removes consecutive repeated elements
Dedup(v) ==
    IF Len(v) <= 1 THEN v
    ELSE IF v[1] = v[2] THEN Dedup(Tail(v))
    ELSE <<v[1]>> \o Dedup(Tail(v))

----------------------------------------------------------------------------
(* The parser as a value: the fields of Rdp, the history of track calls, and
   what the call in progress has done so far (recognizer invocations, operator
   tokens synthesized). *)

Self ==
    [pos |-> pos, queue |-> queue, failures |-> failures, fail_pos |-> fail_pos,
     atomic |-> atomic, comment |-> comment, eoi_matched |-> eoi_matched,
     hmax |-> hmax, htags |-> htags, calls |-> 0, synth |-> <<>>,
     rets |-> <<>>, iters |-> 0, nested |-> <<>>]

\* Rdp::new
New ==
    [pos |-> 0, queue |-> <<>>, failures |-> <<>>, fail_pos |-> 0,
     atomic |-> FALSE, comment |-> FALSE, eoi_matched |-> FALSE,
     hmax |-> -1, htags |-> {}, calls |-> 0, synth |-> <<>>,
     rets |-> <<>>, iters |-> 0, nested |-> <<>>]

\* The fields of Rdp alone
Fields(self) ==
    [pos |-> self.pos, queue |-> self.queue, failures |-> self.failures,
     fail_pos |-> self.fail_pos, atomic |-> self.atomic, comment |-> self.comment,
     eoi_matched |-> self.eoi_matched]

Ret(self, result) == [self |-> self, result |-> result]

----------------------------------------------------------------------------
(* Input *)

\* Input::len
InputLen == Len(input)

\* Parser::end
end(self) == InputLen = self.pos

\* Parser::set_pos
set_pos(self, p) == [self EXCEPT !.pos = p]

\* whether the input at position p starts with the string s
StartsWith(p, s) ==
    /\ p + Len(s) <= InputLen
    /\ \A i \in 1..Len(s) : input[p + i] = s[i]

\* match_string as it would be if it advanced whenever the input has room for
\* the string
MatchStringConsuming(self, s) ==
    IF self.pos + Len(s) <= InputLen
    THEN Ret(set_pos(self, self.pos + Len(s)), StartsWith(self.pos, s))
    ELSE Ret(self, FALSE)

\* Parser::match_string: advances by the length of the string when it matches
match_string(self, s) ==
    IF StartsWith(self.pos, s)
    THEN Ret(set_pos(self, self.pos + Len(s)), TRUE)
    ELSE Ret(self, FALSE)

\* the code points of the characters of the inputs, for the order of char
CharCode(c) ==
    CASE c = "\n" -> 10 [] c = " " -> 32 [] c = "(" -> 40 [] c = ")" -> 41
      [] c = "*" -> 42 [] c = "+" -> 43 [] c = "/" -> 47 [] c = "^" -> 94
      [] c = "a" -> 97 [] c = "z" -> 122

\* Parser::match_range: advances by one char when the char at the position is
\* between left and right
match_range(self, left, right) ==
    IF /\ self.pos < InputLen
       /\ CharCode(left) <= CharCode(input[self.pos + 1])
       /\ CharCode(input[self.pos + 1]) <= CharCode(right)
    THEN Ret(set_pos(self, self.pos + 1), TRUE)
    ELSE Ret(self, FALSE)

----------------------------------------------------------------------------
(* Failure tracking *)

\* track as it would be with pos >= self.fail_pos replacing the failures: a
\* failure at the same position drops the ones tracked there before
TrackReplacing(self, failed, p) ==
    IF self.atomic THEN self
    ELSE IF self.failures = <<>> \/ p >= self.fail_pos
         THEN [self EXCEPT !.failures = <<failed>>, !.fail_pos = p]
         ELSE self

\* Parser::track, on the fields of Rdp
track_vec(self, failed, p) ==
    IF self.atomic THEN self
    ELSE IF self.failures = <<>>
         THEN [self EXCEPT !.failures = <<failed>>, !.fail_pos = p]
         ELSE IF p = self.fail_pos
              THEN [self EXCEPT !.failures = Append(self.failures, failed)]
              ELSE IF p > self.fail_pos
                   THEN [self EXCEPT !.failures = <<failed>>, !.fail_pos = p]
                   ELSE self

\* the history of the track calls made with atomic mode off
Noted(self, failed, p) ==
    IF self.atomic THEN self
    ELSE IF p > self.hmax THEN [self EXCEPT !.hmax = p, !.htags = {failed}]
         ELSE IF p = self.hmax THEN [self EXCEPT !.htags = @ \cup {failed}]
              ELSE self

\* Parser::track, with its call noted in the history
track(self, failed, p) == Noted(track_vec(self, failed, p), failed, p)

\* expected as it would be if it drained the failures it returns
ExpectedDraining(self) ==
    LET sorted == Dedup(Sort(self.failures))
    IN  Ret([self EXCEPT !.failures = <<>>], <<sorted, self.fail_pos>>)

\* Parser::expected
expected(self) ==
    LET sorted == Dedup(Sort(self.failures))
    IN  Ret([self EXCEPT !.failures = sorted], <<sorted, self.fail_pos>>)

\* reset as it would be if it left the failures and their position alone
ResetKeepingFailures(self) == [self EXCEPT !.pos = 0, !.queue = <<>>]

\* Parser::reset
reset(self) ==
    [self EXCEPT !.pos = 0, !.queue = <<>>, !.failures = <<>>, !.fail_pos = 0,
                 !.hmax = -1, !.htags = {}]

----------------------------------------------------------------------------
(* Built-in rules *)

\* any as it would be with the end of the input checked one position late
AnyPastEnd(self) ==
    IF self.pos > InputLen
    THEN Ret(track(self, "any", self.pos), FALSE)
    ELSE Ret(set_pos(self, self.pos + 1), TRUE)

\* Rdp::any
any(self) ==
    IF end(self)
    THEN Ret(track(self, "any", self.pos), FALSE)
    ELSE Ret(set_pos(self, self.pos + 1), TRUE)

\* Rdp::eoi
eoi(self) ==
    LET result == end(self)
    IN  IF ~result
        THEN Ret(track(self, "eoi", self.pos), result)
        ELSE Ret([self EXCEPT !.eoi_matched = TRUE], result)

----------------------------------------------------------------------------
(* White-space and comments: the rules of the grammar under test,
   whitespace = _{ [" "] } and
   comment = _{ ["//"] ~ (!["\n"] ~ any)* ~ ["\n"] }.  Every invocation of a
   recognizer is counted in calls. *)

\* whitespace = _{ [" "] }
whitespace_rule(self) == match_string([self EXCEPT !.calls = @ + 1], <<" ">>)

RECURSIVE CommentText(_)
\* (!["\n"] ~ any)*: any() until a line feed is next or any() fails
CommentText(self) ==
    IF StartsWith(self.pos, <<"\n">>) THEN self
    ELSE LET a == any(self)
         IN  IF a.result THEN CommentText(a.self) ELSE a.self

RECURSIVE WsLoop(_)
RECURSIVE ComLoop(_)
RECURSIVE comment_rule(_)

\* skip_com as it would be without the guard of self.comment
SkipComUnguarded(self) ==
    IF self.atomic THEN self
    ELSE [ComLoop([self EXCEPT !.comment = TRUE]) EXCEPT !.comment = FALSE]

\* Parser::skip_com
skip_com(self) ==
    IF self.atomic THEN self
    ELSE IF ~self.comment
         THEN [ComLoop([self EXCEPT !.comment = TRUE]) EXCEPT !.comment = FALSE]
         ELSE self

\* the skip_com that the sequence of the comment rule calls after its opening
\* string, noted in nested with the parser before and after it
Nested(self) ==
    LET after == skip_com(self)
    IN  [after EXCEPT !.nested = Append(@, [guard |-> self.comment,
                                            before |-> Fields(self),
                                            after |-> Fields(after),
                                            invoked |-> after.calls - self.calls])]

\* comment = _{ ["//"] ~ (!["\n"] ~ any)* ~ ["\n"] }: a failed match leaves
\* the position where it started, and the sequence calls skip_com after ["//"]
comment_rule(self) ==
    LET s0 == [self EXCEPT !.calls = @ + 1]
        open == match_string(s0, <<"/", "/">>)
        text == CommentText(Nested(open.self))
        close == match_string(text, <<"\n">>)
    IN  IF ~open.result THEN Ret(s0, FALSE)
        ELSE IF close.result THEN Ret(close.self, TRUE)
        ELSE Ret(set_pos(text, s0.pos), FALSE)

\* loop { if !self.whitespace() { break } }
WsLoop(self) ==
    LET w == whitespace_rule(self)
    IN  IF w.result THEN WsLoop(w.self) ELSE w.self

\* loop { if !self.comment() { break } }
ComLoop(self) ==
    LET c == comment_rule(self)
    IN  IF c.result THEN ComLoop(c.self) ELSE c.self

\* skip_ws as it would be without the check of atomic
SkipWsInAtomic(self) == WsLoop(self)

\* Parser::skip_ws
skip_ws(self) == IF self.atomic THEN self ELSE WsLoop(self)

\* Parser::set_atomic
set_atomic(self, value) == [self EXCEPT !.atomic = value]

----------------------------------------------------------------------------
(* try.  try_enter is what the call records before it invokes the rule;
   try_exit is what it does once the rule has returned result. *)

\* let pos = self.input.pos(); let len = self.queue.len(); the frame also
\* keeps the queue as it was, for comparison
try_enter(self, revert) ==
    [pos |-> self.pos, len |-> Len(self.queue), revert |-> revert,
     queue |-> self.queue]

\* the rollback as it would be if revert were ignored
TryExitNoRevert(self, frame, result) ==
    LET s1 == IF ~result THEN set_pos(self, frame.pos) ELSE self
    IN  IF ~result THEN [s1 EXCEPT !.queue = Truncate(s1.queue, frame.len)] ELSE s1

\* the rollback as it would be without the truncation of the queue
TryExitNoTruncate(self, frame, result) ==
    IF frame.revert \/ ~result THEN set_pos(self, frame.pos) ELSE self

\* the rollback as it would be if the queue were rolled back with the position
TryExitCoinciding(self, frame, result) ==
    IF frame.revert \/ ~result
    THEN [set_pos(self, frame.pos) EXCEPT !.queue = Truncate(@, frame.len)]
    ELSE self

\* the rollback as it would be if a failed rule's failures were dropped with
\* its tokens
TryExitDroppingFailures(self, frame, result) ==
    LET s1 == IF frame.revert \/ ~result THEN set_pos(self, frame.pos) ELSE self
    IN  IF ~result
        THEN [s1 EXCEPT !.queue = Truncate(s1.queue, frame.len),
                        !.failures = <<>>, !.fail_pos = 0]
        ELSE s1

\* the rollback as it would be if a failed rule's position were kept
TryExitNoRestore(self, frame, result) ==
    LET s1 == IF frame.revert /\ result THEN set_pos(self, frame.pos) ELSE self
    IN  IF ~result THEN [s1 EXCEPT !.queue = Truncate(s1.queue, frame.len)] ELSE s1

\* the rollback after rule(self) returned result
try_exit(self, frame, result) ==
    LET s1 == IF frame.revert \/ ~result THEN set_pos(self, frame.pos) ELSE self
    IN  IF ~result THEN [s1 EXCEPT !.queue = Truncate(s1.queue, frame.len)] ELSE s1

----------------------------------------------------------------------------
(* Precedence climbing.  The grammar under test is an operator rule
       expression = _{ { primary } addition = { ["+"] }
                                   multiplication = { ["*"] }
                                   power = { ["^"] } }
   with primary = { ["a"] }: level n has precedence n, and grammar[n] says
   whether the level is right-associative and whether its rule is silent. *)

OpChars == <<"+", "*", "^">>
LevelRule == <<"addition", "multiplication", "power">>
Levels == 1..Len(OpChars)

\* primary = { ["a"] }: a matched letter queues a token, a failed match is tracked
primary(self) ==
    LET m == match_string(self, <<"a">>)
    IN  IF m.result
        THEN Ret([m.self EXCEPT
                    !.queue = Append(@, Token("primary", self.pos, m.self.pos))],
                 TRUE)
        ELSE Ret(track(self, "primary", self.pos), FALSE)

\* the climb closure: consumes the operator at the position and returns
\* Some((rule, precedence, right-associative)), or None at anything else
climb(self) ==
    IF \E n \in Levels : StartsWith(self.pos, <<OpChars[n]>>)
    THEN LET n == CHOOSE n \in Levels : StartsWith(self.pos, <<OpChars[n]>>)
         IN  Ret(set_pos(self, self.pos + 1),
                 Some([rule |-> IF grammar[n].silent THEN None ELSE Some(LevelRule[n]),
                       prec |-> n,
                       right_assoc |-> grammar[n].right_assoc]))
    ELSE Ret(self, None)

\* the synthesis as it would be with the token pushed at the end of the queue
SynthesizePushed(self, p, token) ==
    [self EXCEPT
        !.queue = Append(@, token),
        !.synth = Append(@, [token |-> token,
                             operands |-> SubSeq(self.queue, p + 1, Len(self.queue))])]

\* the synthesis as it would be with the token inserted at the front of the
\* queue instead of the queue position handed to prec_climb
SynthesizeAtFront(self, p, token) ==
    [self EXCEPT
        !.queue = Insert(@, 0, token),
        !.synth = Append(@, [token |-> token,
                             operands |-> SubSeq(self.queue, p + 1, Len(self.queue))])]

\* self.queue.insert(pos, token), noted in synth with the tokens it wraps
Synthesize(self, p, token) ==
    [self EXCEPT
        !.queue = Insert(@, p, token),
        !.synth = Append(@, [token |-> token,
                             operands |-> SubSeq(self.queue, p + 1, Len(self.queue))])]

\* the tie-break as it would be if equal precedence always climbed
ClimbsOnTie(new_prec, right_assoc, prec) == new_prec >= prec

\* new_prec > prec || right_assoc && new_prec == prec
Climbs(new_prec, right_assoc, prec) ==
    new_prec > prec \/ (right_assoc /\ new_prec = prec)

\* right = cmp::max(pos, right) when last_right is Some(pos)
RightEdge(last_right, right) ==
    IF IsSome(last_right) THEN Max(Unwrap(last_right), right) ELSE right

\* last_right after the edge is computed: set only when it was None
NextLastRight(last_right, right) ==
    IF IsSome(last_right) THEN last_right ELSE Some(right)

\* the return as it would be if the operator looked up last were dropped
ClimbRetNone(self, op, last_right) ==
    [self |-> self, op |-> None, last_right |-> last_right]

ClimbRet(self, op, last_right) == [self |-> self, op |-> op, last_right |-> last_right]

RECURSIVE prec_climb(_, _, _, _, _)
RECURSIVE ClimbOuter(_, _, _, _, _, _)
RECURSIVE ClimbInner(_, _, _, _, _, _)

\* prec_climb as it would be if it looked up an operator of its own instead
\* of starting from last_op
PrecClimbFresh(self, p, left, min_prec, last_op) ==
    LET first == climb(self)
        r == ClimbOuter(first.self, p, left, min_prec, first.result, None)
    IN  [r EXCEPT !.self.rets = Append(@, [min_prec |-> min_prec, left |-> left,
                                           op |-> r.op, pos |-> r.self.pos,
                                           last_right |-> r.last_right])]

\* Parser::prec_climb; the return is noted in rets, with the position reached
prec_climb(self, p, left, min_prec, last_op) ==
    LET first == IF IsSome(last_op) THEN Ret(self, last_op) ELSE climb(self)
        r == ClimbOuter(first.self, p, left, min_prec, first.result, None)
    IN  [r EXCEPT !.self.rets = Append(@, [min_prec |-> min_prec, left |-> left,
                                           op |-> r.op, pos |-> r.self.pos,
                                           last_right |-> r.last_right])]

\* while let Some((rule, prec, _)) = op { ... } of prec_climb
ClimbOuter(self, p, left, min_prec, op, last_right) ==
    IF ~IsSome(op) THEN ClimbRet(self, op, last_right)
    ELSE IF Unwrap(op).prec >= min_prec
    THEN LET queue_pos == Len(self.queue)
             s1 == primary([self EXCEPT !.iters = @ + 1]).self
             got == Len(s1.queue) > queue_pos
             new_pos == IF got THEN s1.queue[queue_pos + 1].start ELSE self.pos
             right0 == IF got THEN s1.queue[queue_pos + 1].end ELSE self.pos
             c == climb(s1)
             inner == ClimbInner(c.self, queue_pos, new_pos, Unwrap(op).prec,
                                 c.result, last_right)
             right == RightEdge(inner.last_right, right0)
             s2 == IF IsSome(Unwrap(op).rule)
                   THEN Synthesize(inner.self, p,
                                   Token(Unwrap(Unwrap(op).rule), left, right))
                   ELSE inner.self
         IN  ClimbOuter(s2, p, left, min_prec, inner.op,
                        NextLastRight(inner.last_right, right0))
    ELSE ClimbRet(self, op, last_right)

\* while let Some((_, new_prec, right_assoc)) = op { ... } of prec_climb
ClimbInner(self, queue_pos, new_pos, prec, op, last_right) ==
    IF IsSome(op) /\ Climbs(Unwrap(op).prec, Unwrap(op).right_assoc, prec)
    THEN LET r == prec_climb(self, queue_pos, new_pos, Unwrap(op).prec, op)
         IN  ClimbInner(r.self, queue_pos, new_pos, prec, r.op, r.last_right)
    ELSE ClimbRet(self, op, last_right)

\* the operator rule's body: the first primary, then prec_climb from the queue
\* position and the left bound recorded before it
expression(self) ==
    LET queue_pos == Len(self.queue)
        m == primary(self)
        left == IF Len(m.self.queue) > queue_pos
                THEN m.self.queue[queue_pos + 1].start ELSE self.pos
    IN  IF m.result
        THEN Ret(prec_climb(m.self, queue_pos, left, 0, None).self, TRUE)
        ELSE Ret(m.self, FALSE)

----------------------------------------------------------------------------
(* The grammar of the example of impl_rdp!:
       expression = _{ paren ~ expression? }
       paren      =  { ["("] ~ expression? ~ [")"] }
   It declares no whitespace and no comment rule, so the skips between the
   elements of a sequence run the default recognizers, which match nothing.
   A sequence is a try(false, ..) of its elements; an optional element is
   called and its result dropped; a non-silent rule inserts its token at the
   queue length it started from, or tracks its failure at the position it
   started from; a silent rule does neither. *)

RECURSIVE paren(_)
RECURSIVE paren_expression(_)

\* paren = { ["("] ~ expression? ~ [")"] }
paren(self) ==
    LET start == self.pos
        len == Len(self.queue)
        frame == try_enter(self, FALSE)
        open == match_string(self, <<"(">>)
        inner == paren_expression(open.self).self
        body == IF open.result THEN match_string(inner, <<")">>) ELSE open
        after == try_exit(body.self, frame, body.result)
    IN  IF body.result
        THEN Ret([after EXCEPT
                    !.queue = Insert(@, len, Token("paren", start, after.pos))],
                 TRUE)
        ELSE Ret(track(after, "paren", start), FALSE)

\* expression = _{ paren ~ expression? }
paren_expression(self) ==
    LET frame == try_enter(self, FALSE)
        first == paren(self)
        body == IF first.result
                THEN Ret(paren_expression(first.self).self, TRUE)
                ELSE first
    IN  Ret(try_exit(body.self, frame, body.result), body.result)

----------------------------------------------------------------------------
(* The state machine *)

\* the record of a call that returned: pre holds the fields when it was made,
\* body the fields as the rule handed to try left them
Call(op, arg, result, pre, self) ==
    [op |-> op, arg |-> arg, result |-> result, pre |-> pre, body |-> <<>>,
     calls |-> self.calls, synth |-> self.synth, rets |-> self.rets,
     iters |-> self.iters, nested |-> self.nested]

Commit(self, call) ==
    /\ pos' = self.pos
    /\ queue' = self.queue
    /\ failures' = self.failures
    /\ fail_pos' = self.fail_pos
    /\ atomic' = self.atomic
    /\ comment' = self.comment
    /\ eoi_matched' = self.eoi_matched
    /\ hmax' = self.hmax
    /\ htags' = self.htags
    /\ last' = call
    /\ UNCHANGED <<input, grammar>>

\* the strings handed to match_string
Literals == {<<"a">>, <<"a", "+">>}

\* the rules and positions handed to track by a caller
TrackRules == {"any", "eoi", "primary"}
Positions == 0..InputLen

\* room for one more tracked failure, and for one more rule's tokens
CanTrack == Len(failures) < MaxFail
CanPush == Len(queue) < MaxQueue

MatchString(s) ==
    LET r == match_string(Self, s)
    IN  /\ Commit(r.self, Call("match_string", s, r.result, Fields(Self), r.self))
        /\ UNCHANGED stack

\* the ranges handed to match_range
Ranges == {<<"a", "z">>, <<"*", "/">>}

MatchRange(left, right) ==
    LET r == match_range(Self, left, right)
    IN  /\ Commit(r.self, Call("match_range", <<left, right>>, r.result,
                               Fields(Self), r.self))
        /\ UNCHANGED stack

Any ==
    LET r == any(Self)
    IN  /\ CanTrack
        /\ Commit(r.self, Call("any", <<>>, r.result, Fields(Self), r.self))
        /\ UNCHANGED stack

Eoi ==
    LET r == eoi(Self)
    IN  /\ CanTrack
        /\ Commit(r.self, Call("eoi", <<>>, r.result, Fields(Self), r.self))
        /\ UNCHANGED stack

Track(failed, p) ==
    LET s == track(Self, failed, p)
    IN  /\ CanTrack
        /\ Commit(s, Call("track", <<failed, p>>, <<>>, Fields(Self), s))
        /\ UNCHANGED stack

Expected ==
    LET r == expected(Self)
    IN  /\ Commit(r.self, Call("expected", <<>>, r.result, Fields(Self), r.self))
        /\ UNCHANGED stack

\* reset is called between parse attempts, not by a rule in progress
Reset ==
    LET s == reset(Self)
    IN  /\ stack = <<>>
        /\ Commit(s, Call("reset", <<>>, <<>>, Fields(Self), s))
        /\ UNCHANGED stack

SetAtomic(value) ==
    LET s == set_atomic(Self, value)
    IN  /\ Commit(s, Call("set_atomic", value, <<>>, Fields(Self), s))
        /\ UNCHANGED stack

SkipWs ==
    LET s == skip_ws(Self)
    IN  /\ Commit(s, Call("skip_ws", <<>>, <<>>, Fields(Self), s))
        /\ UNCHANGED stack

SkipCom ==
    LET s == skip_com(Self)
    IN  /\ CanTrack
        /\ Commit(s, Call("skip_com", <<>>, <<>>, Fields(Self), s))
        /\ UNCHANGED stack

PrimaryRule ==
    LET r == primary(Self)
    IN  /\ CanTrack /\ CanPush
        /\ Commit(r.self, Call("primary", <<>>, r.result, Fields(Self), r.self))
        /\ UNCHANGED stack

Expression ==
    LET r == expression(Self)
    IN  /\ CanTrack /\ CanPush
        /\ Commit(r.self, Call("expression", <<>>, r.result, Fields(Self), r.self))
        /\ UNCHANGED stack

\* the rule expression of the grammar of parentheses
ParenExpression ==
    LET r == paren_expression(Self)
    IN  /\ CanTrack
        /\ Commit(r.self, Call("paren_expression", <<>>, r.result,
                               Fields(Self), r.self))
        /\ UNCHANGED stack

\* try(revert, rule) up to the call of rule
TryBegin(revert) ==
    /\ Len(stack) < MaxDepth
    /\ stack' = Append(stack, try_enter(Self, revert))
    /\ last' = Call("try_begin", revert, <<>>, Fields(Self), Self)
    /\ UNCHANGED <<input, grammar, pos, queue, failures, fail_pos, atomic,
                   comment, eoi_matched, hmax, htags>>

\* try called by a rule that a try one level up is running
TryBeginNested(revert) ==
    /\ Len(stack) < MaxDepth + 1
    /\ stack' = Append(stack, try_enter(Self, revert))
    /\ last' = Call("try_begin", revert, <<>>, Fields(Self), Self)
    /\ UNCHANGED <<input, grammar, pos, queue, failures, fail_pos, atomic,
                   comment, eoi_matched, hmax, htags>>

\* rule returned result: the rest of try.  body holds the fields as the rule
\* left them
TryEnd(result) ==
    /\ stack # <<>>
    /\ LET frame == stack[Len(stack)]
           s == try_exit(Self, frame, result)
       IN  Commit(s, [Call("try", frame.revert, result,
                           [pos |-> frame.pos, queue |-> frame.queue], s)
                        EXCEPT !.body = Fields(Self)])
    /\ stack' = SubSeq(stack, 1, Len(stack) - 1)

----------------------------------------------------------------------------
(* Backtracking: rules matched inside and outside try calls, on short
   inputs, with the grammar's levels as in addition (left), multiplication
   (left), power (right) *)

Inputs == {<<"a", "+", "a">>}

DefaultGrammar ==
    [n \in Levels |-> [right_assoc |-> (n = 3), silent |-> FALSE]]

InitParser ==
    /\ pos = New.pos
    /\ queue = New.queue
    /\ failures = New.failures
    /\ fail_pos = New.fail_pos
    /\ atomic = New.atomic
    /\ comment = New.comment
    /\ eoi_matched = New.eoi_matched
    /\ hmax = New.hmax
    /\ htags = New.htags
    /\ stack = <<>>
    /\ last = Call("new", <<>>, <<>>, Fields(New), New)

Init ==
    /\ input \in Inputs
    /\ grammar = DefaultGrammar
    /\ InitParser

Next ==
    \/ \E s \in Literals : MatchString(s)
    \/ Any
    \/ PrimaryRule
    \/ Expression
    \/ \E revert \in BOOLEAN : TryBegin(revert)
    \/ \E result \in BOOLEAN : TryEnd(result)
    \/ Reset

Spec == Init /\ [][Next]_vars

----------------------------------------------------------------------------
(* Failure tracking, atomic mode and skipping, on inputs with white-space
   and comments *)

TrackInputs == {<<" ", "a">>, <<"/", "/", "\n">>, <<"a", "/", "/">>}

InitTrack ==
    /\ input \in TrackInputs
    /\ grammar = DefaultGrammar
    /\ InitParser

NextTrack ==
    \/ \E failed \in TrackRules, p \in Positions : Track(failed, p)
    \/ Expected
    \/ Reset
    \/ \E value \in BOOLEAN : SetAtomic(value)
    \/ SkipWs
    \/ SkipCom
    \/ Any
    \/ Eoi
    \/ PrimaryRule

SpecTrack == InitTrack /\ [][NextTrack]_vars

----------------------------------------------------------------------------
(* Operator chains: a primary, then up to MaxOps operators each followed by a
   primary (the last primary may be missing), under every choice of
   associativity and silence of the three levels *)

RECURSIVE ChainOf(_)
ChainOf(ops) ==
    IF ops = <<>> THEN <<"a">>
    ELSE ChainOf(SubSeq(ops, 1, Len(ops) - 1)) \o <<OpChars[ops[Len(ops)]], "a">>

OpSeqs == UNION {[1..n -> Levels] : n \in 1..MaxOps}

Chains ==
    {ChainOf(ops) : ops \in OpSeqs}
        \cup {SubSeq(ChainOf(ops), 1, 2 * Len(ops)) : ops \in OpSeqs}

Grammars == [Levels -> [right_assoc : BOOLEAN, silent : BOOLEAN]]

InitClimb ==
    /\ input \in Chains
    /\ grammar \in Grammars
    /\ InitParser

NextClimb ==
    \/ Expression
    \/ Reset

SpecClimb == InitClimb /\ [][NextClimb]_vars

----------------------------------------------------------------------------
(* Matching: match_string and match_range called directly, next to a rule
   that tracks its own failure *)

MatchInputs == {<<"a", "+", "a">>, <<"+", "a">>, <<"a", "a">>}

InitMatch ==
    /\ input \in MatchInputs
    /\ grammar = DefaultGrammar
    /\ InitParser

NextMatch ==
    \/ \E s \in Literals \cup {<<"+">>} : MatchString(s)
    \/ \E r \in Ranges : MatchRange(r[1], r[2])
    \/ PrimaryRule
    \/ Reset

SpecMatch == InitMatch /\ [][NextMatch]_vars

----------------------------------------------------------------------------
(* Rule bodies that move the position, track failures and set flags, inside
   and outside try calls, on inputs with white-space and comments *)

InitBody ==
    /\ input \in TrackInputs
    /\ grammar = DefaultGrammar
    /\ InitParser

NextBody ==
    \/ Any
    \/ Eoi
    \/ SkipWs
    \/ SkipCom
    \/ \E value \in BOOLEAN : SetAtomic(value)
    \/ \E revert \in BOOLEAN : TryBegin(revert)
    \/ \E result \in BOOLEAN : TryEnd(result)
    \/ Reset

SpecBody == InitBody /\ [][NextBody]_vars

----------------------------------------------------------------------------
(* Nested attempts: rules that push tokens and operator rules that insert
   them, inside try calls nested one level deeper than under Spec *)

InitNest ==
    /\ input \in Inputs
    /\ grammar = DefaultGrammar
    /\ InitParser

NextNest ==
    \/ PrimaryRule
    \/ Expression
    \/ \E s \in Literals : MatchString(s)
    \/ \E revert \in BOOLEAN : TryBeginNested(revert)
    \/ \E result \in BOOLEAN : TryEnd(result)
    \/ Reset

SpecNest == InitNest /\ [][NextNest]_vars

----------------------------------------------------------------------------
(* Parentheses: every string of ( and ) of up to MaxParens characters *)

Parens == UNION {[1..n -> {"(", ")"}] : n \in 0..MaxParens}

InitParen ==
    /\ input \in Parens
    /\ grammar = DefaultGrammar
    /\ InitParser

NextParen ==
    \/ ParenExpression
    \/ Eoi
    \/ Reset

SpecParen == InitParen /\ [][NextParen]_vars

----------------------------------------------------------------------------
(* Claims about try, under Spec.  last is the try call that returned: arg is
   revert, pre the position and queue when it was made, body the fields as
   the rule left them. *)

\* the rule advanced the position and queued tokens before it returned
RuleActed == last.body.pos > last.pre.pos /\ Len(last.body.queue) > Len(last.pre.queue)

\* C1 as stated: after try(true, r) the position and the queue length equal
\* their values before the call, whatever r returned and whatever it pushed.
C1_Original ==
    (last.op = "try" /\ last.arg)
    => pos = last.pre.pos /\ Len(queue) = Len(last.pre.queue)

\* C1 amended: after try(true, r) the position equals its value before the
\* call whatever r returned; the queue length equals its value before the call
\* when r returned false, and the queue is as r left it when r returned true.
C1_BacktrackIsolation ==
    (last.op = "try" /\ last.arg)
    => /\ pos = last.pre.pos
       /\ ~last.result => Len(queue) = Len(last.pre.queue)
       /\ last.result => queue = last.body.queue

C1_Witness ==
    last.op = "try" /\ last.arg /\ ~last.result /\ RuleActed

\* C2: when try(false, r) returns false the queue length and the position
\* equal their values before the call, so that the next match starts where
\* the failed attempt started.
C2_TruncationOnFailure ==
    (last.op = "try" /\ ~last.arg /\ ~last.result)
    => pos = last.pre.pos /\ Len(queue) = Len(last.pre.queue)

C2_Witness ==
    last.op = "try" /\ ~last.arg /\ ~last.result /\ RuleActed

\* C8: the position is restored exactly when revert is true or r returned
\* false, and the queue is truncated to its length before the call exactly
\* when r returned false; otherwise both stay as r left them.
C8_RollbackAsymmetry ==
    last.op = "try"
    => /\ pos = IF last.arg \/ ~last.result THEN last.pre.pos ELSE last.body.pos
       /\ queue = IF ~last.result
                  THEN SubSeq(last.body.queue, 1, Len(last.pre.queue))
                  ELSE last.body.queue

\* try(true, r) with r returning true: the position is rolled back and the
\* queue is not
C8_Witness ==
    /\ last.op = "try" /\ last.arg /\ last.result /\ RuleActed
    /\ pos = last.pre.pos
    /\ Len(queue) > Len(last.pre.queue)

----------------------------------------------------------------------------
(* Claims about failure tracking, atomic mode and reset, under SpecTrack *)

Range(v) == {v[i] : i \in 1..Len(v)}

\* C3: expected() reports the largest position passed to track with atomic
\* mode off since the last reset and exactly the tags passed at that
\* position; every tag held failed at the position held.
C3_FurthestFailure ==
    /\ (hmax = -1) => (failures = <<>>)
    /\ (hmax >= 0) => (fail_pos = hmax /\ Range(failures) = htags)
    /\ (last.op = "expected" /\ hmax >= 0)
       => (last.result[2] = hmax /\ Range(last.result[1]) = htags)

C3_Witness ==
    /\ last.op = "expected"
    /\ last.result[2] > 0
    /\ Len(last.result[1]) >= 2

\* C4: while atomic, track leaves the failures and their position unchanged,
\* and skip_ws and skip_com leave the fields unchanged and invoke no
\* recognizer.
C4_AtomicSuppression ==
    /\ (last.op = "track" /\ last.pre.atomic)
       => (failures = last.pre.failures /\ fail_pos = last.pre.fail_pos)
    /\ (last.op \in {"skip_ws", "skip_com"} /\ last.pre.atomic)
       => (Fields(Self) = last.pre /\ last.calls = 0)

\* skip_ws called in atomic mode with white-space next
C4_Witness ==
    /\ last.op = "skip_ws" /\ last.pre.atomic
    /\ StartsWith(pos, <<" ">>)

\* C7: reset() returns the parser to the state of a freshly constructed
\* parser on the same input: position 0, empty queue, empty failures, and the
\* atomic, comment and eoi_matched flags false.
C7_ResetIsNew ==
    last.op = "reset" => Fields(Self) = Fields(New)

\* the last element is sorted after the ones before it, without repetition
StrictlyAscending(v) ==
    \A i, j \in 1..Len(v) : i < j => RuleOrd[v[i]] < RuleOrd[v[j]]

\* C9: expected() returns the tracked tags sorted and without duplicates with
\* the failure position, keeps those tags and that position, and a second
\* call returns the same.
C9_ExpectedIdempotent ==
    last.op = "expected"
    => /\ StrictlyAscending(last.result[1])
       /\ Range(last.result[1]) = Range(last.pre.failures)
       /\ last.result[2] = last.pre.fail_pos
       /\ Range(failures) = Range(last.pre.failures)
       /\ fail_pos = last.pre.fail_pos
       /\ expected(Self).result = last.result

\* expected() called on failures that were out of order or repeated
C9_Witness ==
    /\ last.op = "expected"
    /\ Len(last.pre.failures) >= 2
    /\ last.pre.failures # last.result[1]

----------------------------------------------------------------------------
(* Claims about precedence climbing, under SpecClimb *)

\* the span of token A contains the span of token B
Contains(A, B) == A.start <= B.start /\ B.end <= A.end

\* the level whose operator fills a whole chain a?a?..?a of k operators, or 0
UniformLevel ==
    IF \E n \in Levels, k \in 2..(MaxOps + 1) : input = ChainOf([i \in 1..k |-> n])
    THEN CHOOSE n \in Levels : \E k \in 2..(MaxOps + 1) : input = ChainOf([i \in 1..k |-> n])
    ELSE 0

NumOps == (Len(input) - 1) \div 2

Operand(i) == Token("primary", 2 * i, 2 * i + 1)

\* a+b+c: the k-th operator's token spans a up to its right operand; the queue
\* holds the last operator's token first and the first operator's token last
LeftNested(rule) ==
    [i \in 1..NumOps |-> Token(rule, 0, 2 * (NumOps - i + 1) + 1)]
        \o [i \in 1..(NumOps + 1) |-> Operand(i - 1)]

\* a^b^c: the k-th operator's token spans its left operand up to the end; each
\* token sits before its left operand, the first operator's token first
RightNested(rule) ==
    [i \in 1..(2 * NumOps + 1) |->
        IF i = 2 * NumOps + 1 THEN Operand(NumOps)
        ELSE IF i % 2 = 1 THEN Token(rule, i - 1, Len(input))
        ELSE Operand((i \div 2) - 1)]

\* C5: a chain of operands joined by one operator groups by associativity:
\* left-associative, the last operator's token spans the whole expression and
\* the first operator's token is nested in it spanning only a+b;
\* right-associative, the first operator's token spans the whole expression
\* and the second operator's token is nested in it spanning only b^c.
C5_Associativity ==
    (last.op = "expression" /\ last.pre.pos = 0 /\ UniformLevel # 0
        /\ ~grammar[UniformLevel].silent)
    => queue = IF grammar[UniformLevel].right_assoc
               THEN RightNested(LevelRule[UniformLevel])
               ELSE LeftNested(LevelRule[UniformLevel])

C5_Witness ==
    /\ last.op = "expression" /\ last.pre.pos = 0
    /\ input = <<"a", "+", "a", "+", "a">>
    /\ ~grammar[1].silent /\ ~grammar[1].right_assoc
    /\ queue[1] = Token("addition", 0, 5)
    /\ queue[2] = Token("addition", 0, 3)

\* C6: on a chain of operators with all its operands, every operator token
\* synthesized by prec_climb contains the tokens queued for its operands.
C6_Containment ==
    (last.op = "expression" /\ Len(input) % 2 = 1)
    => \A i \in 1..Len(last.synth) :
          \A B \in Range(last.synth[i].operands) :
              Contains(last.synth[i].token, B)

\* C10: after a prec_climb run, a token whose span contains another token's
\* span is at or before it in the queue, and tokens with disjoint spans are
\* in textual order.
C10_QueueOrder ==
    last.op = "expression"
    => \A i, j \in 1..Len(queue) :
          /\ (i # j /\ Contains(queue[i], queue[j])) => i <= j
          /\ (queue[i].end <= queue[j].start /\ queue[i] # queue[j]) => i < j

\* a+b*c: the token of + before a, the token of * after a and before b and c
C10_Witness ==
    /\ last.op = "expression"
    /\ input = <<"a", "+", "a", "*", "a">>
    /\ Len(queue) = 5
    /\ queue[1] = Token("addition", 0, 5)
    /\ queue[3] = Token("multiplication", 2, 5)

----------------------------------------------------------------------------
(* Claims about matching, under SpecMatch *)

\* C11 as stated: when match_string or match_range fails, the position is
\* unchanged and the failure has been tracked at the position where the
\* attempt started, so the failure set holds a failure at or past it.
C11_Original ==
    (last.op \in {"match_string", "match_range"} /\ ~last.result)
    => /\ pos = last.pre.pos
       /\ failures # <<>>
       /\ fail_pos >= last.pre.pos

\* C11 amended: when match_string or match_range fails, the position, the
\* queue, the failure set and the failure position are all as they were
\* before the call (tracking is left to the rule that called it); when it
\* matches, only the position changes.
C11_FailedMatch ==
    (last.op \in {"match_string", "match_range"})
    => IF last.result
       THEN [Fields(Self) EXCEPT !.pos = last.pre.pos] = last.pre
            /\ pos > last.pre.pos
       ELSE Fields(Self) = last.pre

\* a failed match_string and a failed match_range on an input they do not
\* start, with no failure tracked
C11_Witness ==
    /\ last.op \in {"match_string", "match_range"}
    /\ ~last.result
    /\ pos + 2 <= InputLen
    /\ failures = <<>>

----------------------------------------------------------------------------
(* Claims about positions, diagnostics and flags, under SpecBody *)

\* C12: any() returns true and advances the position by exactly one when the
\* position is before the input length; at the end it returns false, leaves
\* the position unchanged and (atomic mode off) tracks the any tag there; and
\* whatever any, eoi, try, the skips and reset have done, the position is
\* within 0..input length.
C12_AnyWithinInput ==
    /\ pos \in 0..InputLen
    /\ last.op = "any"
       => IF last.pre.pos < InputLen
          THEN /\ last.result
               /\ Fields(Self) = [last.pre EXCEPT !.pos = @ + 1]
          ELSE /\ ~last.result
               /\ pos = last.pre.pos
               /\ ~last.pre.atomic
                  => "any" \in Range(failures) /\ fail_pos = last.pre.pos

\* any() failed at the end of the input, which earlier calls had reached,
\* and tracked its tag there
C12_Witness ==
    /\ last.op = "any"
    /\ ~last.result
    /\ pos = InputLen
    /\ "any" \in Range(failures)
    /\ "any" \notin Range(last.pre.failures)

\* C20: when try returns, the failure set, the failure position, the atomic
\* flag, the comment guard and eoi_matched are as the rule body left them,
\* whatever the body returned and whatever revert is; only the position and
\* the queue may differ from what the body left.
C20_DiagnosticsKept ==
    last.op = "try"
    => /\ failures = last.body.failures
       /\ fail_pos = last.body.fail_pos
       /\ atomic = last.body.atomic
       /\ comment = last.body.comment
       /\ eoi_matched = last.body.eoi_matched
       /\ [Fields(Self) EXCEPT !.pos = 0, !.queue = <<>>]
             = [last.body EXCEPT !.pos = 0, !.queue = <<>>]

\* a failed try whose body advanced to the end of the input, where it matched
\* eoi and tracked a failure: the position is back, the failure and the flag
\* are kept
C20_Witness ==
    /\ last.op = "try"
    /\ ~last.result
    /\ last.body.pos = InputLen
    /\ pos < last.body.pos
    /\ failures # <<>>
    /\ fail_pos = InputLen
    /\ eoi_matched

----------------------------------------------------------------------------
(* Claims about reset followed by track, under SpecTrack *)

\* C19: reset() sets the position to 0 and empties the queue and the failure
\* set, the stored failure position included: in the state reset() leaves,
\* with atomic mode off, track(tag, p) for any tag and any p, also one below
\* the failure position held before the reset, makes expected() return
\* ([tag], p); and every track call made on an empty failure set leaves
\* exactly its own tag and position.
C19_ResetThenTrack ==
    /\ last.op = "reset"
       => /\ pos = 0 /\ queue = <<>> /\ failures = <<>> /\ fail_pos = 0
          /\ ~atomic
             => \A tag \in TrackRules, p \in Positions :
                   expected(track(Self, tag, p)).result = <<(<<tag>>), p>>
    /\ (last.op = "track" /\ ~last.pre.atomic /\ last.pre.failures = <<>>)
       => failures = <<last.arg[1]>> /\ fail_pos = last.arg[2]

\* reset() called with failures tracked at a position past 0, atomic mode off
C19_Witness ==
    /\ last.op = "reset"
    /\ last.pre.failures # <<>>
    /\ last.pre.fail_pos > 0
    /\ ~atomic

----------------------------------------------------------------------------
(* Claims about the guard of skip_com, under SpecTrack *)

\* a comment with its line feed starts at position p
CommentAt(p) ==
    /\ StartsWith(p, <<"/", "/">>)
    /\ \E q \in (p + 2)..(InputLen - 1) : input[q + 1] = "\n"

\* C18: a skip_com call made while the comment guard is set (from inside the
\* comment recognizer) changes nothing and does not invoke the recognizer;
\* the guard is false again whenever no skip_com is in progress, so every
\* later skip_com with atomic mode off skips the comment it stands at.
C18_SkipComGuard ==
    /\ comment = FALSE
    /\ last.op = "skip_com"
       => /\ \A i \in 1..Len(last.nested) :
                /\ last.nested[i].guard
                /\ last.nested[i].after = last.nested[i].before
                /\ last.nested[i].invoked = 0
          /\ (~last.pre.atomic /\ CommentAt(last.pre.pos))
             => pos > last.pre.pos /\ ~CommentAt(pos)

\* skip_com skipped a comment whose recognizer called skip_com in turn, and
\* invoked the recognizer once more after it
C18_Witness ==
    /\ last.op = "skip_com"
    /\ Len(last.nested) >= 1
    /\ last.nested[1].guard
    /\ last.calls >= 2
    /\ pos > last.pre.pos

----------------------------------------------------------------------------
(* Claims about the returns and the loop of prec_climb, under SpecClimb.
   last.rets holds the return of every prec_climb call of the run, the
   outermost last; last.iters counts the iterations of the outer loop. *)

\* the tokens of a rule in a queue, and the occurrences of a char in the
\* input between two positions
CountTokens(q, rule) == Cardinality({i \in 1..Len(q) : q[i].rule = rule})
CountChars(from, to, c) == Cardinality({i \in (from + 1)..to : input[i] = c})

\* the operator characters between two positions of the input
OpsConsumed(from, to) ==
    Cardinality({i \in (from + 1)..to : \E n \in Levels : input[i] = OpChars[n]})

\* C16: when a prec_climb call returns, the operator it hands back is None or
\* has a precedence strictly below the call's min_prec; every operator looked
\* up during the run has become a binary operation: a non-silent level has
\* exactly one token per operator consumed, a silent level none.
C16_LeftoverBelowMinPrec ==
    (last.op = "expression" /\ last.result)
    => /\ \A i \in 1..Len(last.rets) :
             \/ ~IsSome(last.rets[i].op)
             \/ Unwrap(last.rets[i].op).prec < last.rets[i].min_prec
       /\ ~IsSome(last.rets[Len(last.rets)].op)
       /\ \A n \in Levels :
             CountTokens(queue, LevelRule[n]) - CountTokens(last.pre.queue, LevelRule[n])
               = IF grammar[n].silent THEN 0
                 ELSE CountChars(last.pre.pos, pos, OpChars[n])

\* a*b+c: the nested call made for * handed + back to its caller, which
\* made it the root
C16_Witness ==
    /\ last.op = "expression"
    /\ input = <<"a", "+", "a", "*", "a", "+", "a">>
    /\ \A n \in Levels : ~grammar[n].silent /\ ~grammar[n].right_assoc
    /\ \E i \in 1..Len(last.rets) :
          /\ IsSome(last.rets[i].op)
          /\ Unwrap(last.rets[i].op).prec = 1
          /\ last.rets[i].min_prec = 2
    /\ CountTokens(queue, "addition") = 2
    /\ CountTokens(queue, "multiplication") = 1

\* C17: a prec_climb run returns after one iteration of its outer loop per
\* operator character consumed, with no more calls than iterations plus the
\* outermost one, and the position within the input: the work is bounded by
\* the length of the input.
C17_ClimbTerminates ==
    last.op = "expression"
    => /\ last.iters = OpsConsumed(last.pre.pos, pos)
       /\ Len(last.rets) <= last.iters + 1
       /\ pos <= InputLen

\* a chain of MaxOps operators climbed in nested calls, to the end of the input
C17_Witness ==
    /\ last.op = "expression"
    /\ last.iters = MaxOps
    /\ Len(last.rets) = MaxOps
    /\ pos = InputLen

\* C15: the position prec_climb returns is the furthest position matched by
\* the call: on a chain with all its operands, the end of the last primary the
\* call (or a call nested in it) matched, which is the position it reached
\* less the operator it hands back.
C15_FurthestPosition ==
    (last.op = "expression" /\ last.result /\ Len(input) % 2 = 1)
    => \A i \in 1..Len(last.rets) :
          last.rets[i].last_right
            = Some(last.rets[i].pos - (IF IsSome(last.rets[i].op) THEN 1 ELSE 0))

----------------------------------------------------------------------------
(* Claims about chains of mixed precedence, under SpecClimb: prec_climb
   against the textbook precedence climbing over the same chain, whose queue
   is the pre-order of its tree (an operator's token, the tokens of its left
   operand, the tokens of its right operand). *)

\* the level of the k-th operator of the chain, between operands k-1 and k
OpLevel(k) == CHOOSE n \in Levels : input[2 * k] = OpChars[n]

RECURSIVE RefClimb(_, _)
RECURSIVE RefLoop(_, _, _)

\* the expression starting at operand i that takes operators of precedence
\* min_prec and above; next is the first operator it leaves
RefClimb(i, min_prec) ==
    RefLoop([toks |-> <<Operand(i)>>, start |-> 2 * i, end |-> 2 * i + 1],
            i + 1, min_prec)

RefLoop(lhs, k, min_prec) ==
    IF k <= NumOps /\ OpLevel(k) >= min_prec
    THEN LET n == OpLevel(k)
             rhs == RefClimb(k, IF grammar[n].right_assoc THEN n ELSE n + 1)
             tok == IF grammar[n].silent THEN <<>>
                    ELSE <<Token(LevelRule[n], lhs.start, rhs.tree.end)>>
         IN  RefLoop([toks |-> tok \o lhs.toks \o rhs.tree.toks,
                      start |-> lhs.start, end |-> rhs.tree.end],
                     rhs.next, min_prec)
    ELSE [tree |-> lhs, next |-> k]

\* C14: on a chain with all its operands, whatever the precedences and
\* associativities of its operators, the queue prec_climb leaves is the
\* pre-order of the tree of the reference precedence climbing: a following
\* operator is bound into the right operand exactly when it has strictly
\* greater precedence, or equal precedence and is right-associative.
C14_MatchesReference ==
    (last.op = "expression" /\ last.result /\ Len(input) % 2 = 1)
    => queue = RefClimb(0, 1).tree.toks

----------------------------------------------------------------------------
(* Claims about the grammar of parentheses, under SpecParen *)

\* the ( less the ) among the first i characters of the input
Depth(i) ==
    Cardinality({j \in 1..i : input[j] = "("})
        - Cardinality({j \in 1..i : input[j] = ")"})

\* the input is a non-empty balanced sequence of parentheses
Balanced ==
    /\ input # <<>>
    /\ \A i \in 1..Len(input) : Depth(i) >= 0
    /\ Depth(Len(input)) = 0

\* C13: for every string of ( and ) up to the bound, expression() called at
\* position 0 returns true with end() true afterwards exactly when the string
\* is a non-empty balanced sequence of parentheses.
C13_BalancedExactly ==
    (last.op = "paren_expression" /\ last.pre.pos = 0)
    => ((last.result /\ end(Self)) <=> Balanced)

\* (())(): matched to the end, each pair's token before the tokens inside it
C13_Witness ==
    /\ last.op = "paren_expression"
    /\ last.result /\ end(Self)
    /\ input = <<"(", "(", ")", ")", "(", ")">>
    /\ queue = <<Token("paren", 0, 4), Token("paren", 1, 3), Token("paren", 4, 6)>>

----------------------------------------------------------------------------
(* Claims about the queue after a failed attempt, under SpecNest *)

\* C21: after a failed try whose body matched, pushed tokens, ran nested try
\* calls and ran prec_climb from a queue position taken inside the body, the
\* queue is element for element the queue before the call: no token queued
\* before the attempt is removed, reordered or displaced.
C21_QueueIdentical ==
    (last.op = "try" /\ ~last.result)
    => queue = last.pre.queue

\* a failed try nested in another one, made with a token queued before it,
\* whose body ran prec_climb: the operator's token went in after that token
C21_Witness ==
    /\ last.op = "try"
    /\ ~last.result
    /\ stack # <<>>
    /\ last.pre.queue # <<>>
    /\ Len(last.body.queue) > Len(last.pre.queue) + 1
    /\ last.body.queue[Len(last.pre.queue) + 1].rule = "addition"

====
